---- MODULE Spec2Model ----
(***************************************************************************)
(* ArrowBytesMap (src/src/common/collections/binary_map.rs): a             *)
(* deduplicating map keyed by byte strings, with one payload per distinct  *)
(* key, that materialises its keys in first-seen order.                    *)
(*                                                                         *)
(* Encodings used throughout:                                              *)
(*   Option<T>   None is <<>>, Some(x) is <<x>>                            *)
(*   &[u8]       a sequence of bytes 0..255                                *)
(*   usize       a 64-bit word, written as its 8 bytes, most significant   *)
(*               first (so that acc << 8 keeps the machine width)          *)
(*   O           i32, the offset type of the maps built in the tests; its  *)
(*               largest value is the variable offset_max, so that a map   *)
(*               with a narrow offset type can be checked as well          *)
(*   OutputType  "Utf8" or "Binary" (the view types belong to              *)
(*               ArrowBytesViewMap)                                        *)
(***************************************************************************)
EXTENDS Integers, Sequences, FiniteSets

VARIABLES
    output_type,    \* OutputType: the kind of array the map builds
    offset_max,     \* the largest value of the offset type O
    map,            \* hashbrown::raw::RawTable<Entry<O, V>>, in insertion order
    buffer,         \* BufferBuilder<u8>: the arena
    offsets,        \* Vec<O>
    random_state,   \* RandomState: the seed of the hash function
    null,           \* Option<(V, usize)>
    status,         \* "live", or why the value can no longer be used
    fed,            \* number of elements passed so far, a take counted as one
    lastOp,         \* the operation that produced this state
    lastP0,         \* the value the last insert_if_new's make_payload_fn returns
    made,           \* arguments of every make_payload_fn call, in call order
    observed,       \* arguments of the last call's observe_payload_fn calls
    nullCalls,      \* callbacks the last call invoked for NULL elements
    payloads,       \* Vec<Option<V>> returned by get_payloads
    array,          \* Option<array> returned by into_state
    seen,           \* reference: distinct elements in order of first occurrence
    ref,            \* reference: element -> Option<payload>
    occ,            \* reference: element -> occurrences in insert_or_update
    expObserved,    \* reference: payload of each element of the last batch
    expPayloads,    \* reference: Option<payload> of each element looked up
    lastNulls,      \* reference: number of NULL elements of the last batch
    lastType,       \* values.data_type() of the last batch
    held,           \* what the caller does with the maps take() returns
    alloc,          \* Option<sizes>: map_size and the capacities size() adds up
    pack,           \* two keys and their packed words (the fold on its own)
    skew,           \* the SkewnessAccumulators of skewness.rs
    taken           \* Option<map>: the map take() returned, until the next call

vars == <<output_type, offset_max, map, buffer, offsets, random_state, null,
          status, fed, lastOp, lastP0, made, observed, nullCalls, payloads,
          array, seen, ref, occ, expObserved, expPayloads, lastNulls, lastType,
          held, alloc, pack, skew, taken>>

None == <<>>
Some(x) == <<x>>

(***************************************************************************)
(* Bounds and inputs                                                       *)
(***************************************************************************)
MaxElems == 4

\* the values given to the SkewnessAccumulators of a run, and the states
\* given to merge_batch
MaxVals == 3
MaxStates == 3

A1 == <<65>>
Z8 == <<0, 0, 0, 0, 0, 0, 0, 0>>
Z9 == <<0, 0, 0, 0, 0, 0, 0, 0, 0>>
Y9 == <<0, 0, 0, 0, 0, 0, 0, 0, 1>>
Keys == {A1, Z8, Z9, Y9}
Elems == {None} \cup {Some(k) : k \in Keys}

RECURSIVE SeqsUpTo(_)
SeqsUpTo(n) ==
    IF n = 0 THEN {<<>>}
    ELSE LET shorter == SeqsUpTo(n - 1)
         IN  shorter \cup {Append(s, e) : s \in {t \in shorter : Len(t) = n - 1}, e \in Elems}
\* the batches a map that was fed n elements can still be given
Batches(n) == SeqsUpTo(MaxElems - n)

MakeValues == {5}
Seeds == {0, 1}

\* the output types of an ArrowBytesMap and the data types of the arrays of
\* offset type O a caller can pass
OutputTypes == {"Utf8", "Binary"}
DataTypes == {"Utf8", "Binary"}

(***************************************************************************)
(* Machine words and the offset type                                       *)
(***************************************************************************)
SHORT_VALUE_LEN == 8
I32_MAX == 2147483647

ZeroWord == <<0, 0, 0, 0, 0, 0, 0, 0>>

\* acc << 8 | x on a usize of 56 bits
ShlOrNarrow(acc, x) == <<0>> \o SubSeq(acc, 3, SHORT_VALUE_LEN) \o <<x>>

\* acc << 8 | x on a 64-bit usize: the top byte is shifted out
ShlOr(acc, x) == Tail(acc) \o <<x>>

RECURSIVE Fold(_, _)
Fold(acc, value) ==
    IF value = <<>> THEN acc ELSE Fold(ShlOr(acc, Head(value)), Tail(value))

\* value.iter().fold(0usize, |acc, &x| acc << 8 | x as usize)
InlineOf(value) == Fold(ZeroWord, value)

\* a non-negative integer below 2^31 as a usize
ToWord(n) ==
    <<0, 0, 0, 0, (n \div 16777216) % 256, (n \div 65536) % 256, (n \div 256) % 256, n % 256>>

\* the numeric value of a usize
FromWord(w) ==
    ((((((w[1] * 256 + w[2]) * 256 + w[3]) * 256 + w[4]) * 256 + w[5]) * 256 + w[6]) * 256 + w[7]) * 256 + w[8]

\* the largest value of an offset type of 5 bits, small enough for two
\* keys to outgrow it
NARROW_MAX == 2 * SHORT_VALUE_LEN - 1

\* O::usize_as: an `as` cast, which wraps
usize_as(n) == IF n <= offset_max THEN n ELSE ((n - offset_max) - 1) - offset_max - 1

\* O::from_usize: None when the value does not fit
from_usize(n) == IF n <= offset_max THEN Some(n) ELSE None

(***************************************************************************)
(* Hashing: create_hashes(values, random_state, ..) is a function of the   *)
(* seed and the bytes; seed 0 makes every key collide.                     *)
(***************************************************************************)
RECURSIVE SumBytes(_)
SumBytes(value) == IF value = <<>> THEN 0 ELSE Head(value) + SumBytes(Tail(value))

create_hash(seed, value) == (seed * (SumBytes(value) + Len(value))) % 2

(***************************************************************************)
(* Entry and the probe                                                     *)
(***************************************************************************)
Entry(hash, len, offset_or_inline, payload) ==
    [hash |-> hash, len |-> len, offset_or_inline |-> offset_or_inline, payload |-> payload]

\* range with its end one byte short
rangeOneShort(header) ==
    [start |-> FromWord(header.offset_or_inline),
     end   |-> FromWord(header.offset_or_inline) + header.len - 1]

\* Entry::range: self.offset_or_inline..self.offset_or_inline + self.len.as_usize()
range(header) ==
    [start |-> FromWord(header.offset_or_inline),
     end   |-> FromWord(header.offset_or_inline) + header.len]

\* buffer.as_slice().get_unchecked(range): the bytes at start..end (TLC stops
\* with an error on a range outside the buffer, the case the code leaves undefined)
get_unchecked(buf, r) == SubSeq(buf, r.start + 1, r.end)

\* the "small" closure without its length test
EqShortNoLen(header, value_len, inline) == inline = header.offset_or_inline

\* the closure given to the table for a "small" value
EqShort(header, value_len, inline) ==
    IF header.len # value_len THEN FALSE
    ELSE inline = header.offset_or_inline

\* the closure for a value that is not "small", trusting hash and length
EqLongLenOnly(header, value_len, value, buf) == header.len = value_len

\* the closure for a value that is not "small", comparing one machine word
EqLongFirstWord(header, value_len, value, buf) ==
    IF header.len # value_len THEN FALSE
    ELSE SubSeq(value, 1, SHORT_VALUE_LEN)
            = SubSeq(get_unchecked(buf, range(header)), 1, SHORT_VALUE_LEN)

\* the closure given to the table for a value that is not "small"
EqLong(header, value_len, value, buf) ==
    IF header.len # value_len THEN FALSE
    ELSE value = get_unchecked(buf, range(header))

\* the closure the three operations give to the table for a value
Eq(header, value, buf) ==
    IF Len(value) <= SHORT_VALUE_LEN
    THEN EqShort(header, usize_as(Len(value)), InlineOf(value))
    ELSE EqLong(header, usize_as(Len(value)), value, buf)

\* the probe trusting the hash alone: the first entry of the same hash
ProbeHashOnly(table, buf, hash, value) ==
    LET found == {i \in 1..Len(table) : table[i].hash = hash}
    IN  IF found = {} THEN 0 ELSE CHOOSE i \in found : \A j \in found : i <= j

\* RawTable::get / get_mut (hash, eq): the position of the entry found, 0 if none.
\* The table offers the closure the entries stored under the same hash.
Probe(table, buf, hash, value) ==
    LET found == {i \in 1..Len(table) : table[i].hash = hash /\ Eq(table[i], value, buf)}
    IN  IF found = {} THEN 0 ELSE CHOOSE i \in found : \A j \in found : i <= j

\* the Entry of a value that is not "small" with the offset read after the
\* bytes were appended
NewEntryEndOffset(st, hash, value, payload) ==
    IF Len(value) <= SHORT_VALUE_LEN
    THEN Entry(hash, usize_as(Len(value)), InlineOf(value), payload)
    ELSE Entry(hash, usize_as(Len(value)), ToWord(Len(st.buffer) + Len(value)), payload)

\* the Entry built for a value that is not in the table: the bytes packed in a
\* word when the value is "small", else the offset at which the value starts
NewEntry(st, hash, value, payload) ==
    IF Len(value) <= SHORT_VALUE_LEN
    THEN Entry(hash, usize_as(Len(value)), InlineOf(value), payload)
    ELSE Entry(hash, usize_as(Len(value)), ToWord(Len(st.buffer)), payload)

\* the miss branch shared by both insert protocols: append the bytes, push the
\* new boundary, call make_payload_fn(Some(value)), insert the Entry
InsertNew(st, hash, value, payload) ==
    [st EXCEPT !.buffer  = @ \o value,
               !.offsets = Append(@, usize_as(Len(st.buffer) + Len(value))),
               !.made    = Append(@, Some(value)),
               !.map     = Append(@, NewEntry(st, hash, value, payload))]

\* the null index taken after the boundary was pushed
null_index_after(offs) == Len(offs)

\* the first NULL of a map without a boundary of its own
InsertNullNoBoundary(st, payload) ==
    [st EXCEPT !.made      = Append(@, None),
               !.null      = Some([payload |-> payload, null_index |-> Len(st.offsets) - 1]),
               !.nullCalls = Append(@, "make")]

\* the first NULL of a map: make_payload_fn(None), a zero-length boundary, and
\* the null marker at the current logical index
null_index_of(offs) == Len(offs) - 1

InsertNull(st, payload) ==
    [st EXCEPT !.made      = Append(@, None),
               !.offsets   = Append(@, usize_as(Len(st.buffer))),
               !.null      = Some([payload |-> payload, null_index |-> null_index_of(st.offsets)]),
               !.nullCalls = Append(@, "make")]

(***************************************************************************)
(* insert_if_new                                                           *)
(***************************************************************************)
Observe(st, payload) == [st EXCEPT !.observed = Append(@, payload)]

\* a NULL element that is not observed
IfNewNullUnobserved(st, p0) ==
    IF st.null # None THEN st ELSE InsertNull(st, p0)

\* a NULL element, the null made again each time
IfNewNullAlways(st, p0) ==
    LET st1 == InsertNull(st, p0)
        st2 == Observe(st1, st1.null[1].payload)
    IN  [st2 EXCEPT !.nullCalls = Append(@, "observe")]

\* a NULL element
IfNewNull(st, p0) ==
    LET st1 == IF st.null # None THEN st ELSE InsertNull(st, p0)
        st2 == Observe(st1, st1.null[1].payload)
    IN  [st2 EXCEPT !.nullCalls = Append(@, "observe")]

\* a valid element, the payload of a key already present replaced
IfNewValueReplace(st, value, hash, p0) ==
    LET i == Probe(st.map, st.buffer, hash, value)
    IN  IF i # 0
        THEN Observe([st EXCEPT !.map[i].payload = p0], p0)
        ELSE Observe(InsertNew(st, hash, value, p0), p0)

\* a valid element, make_payload_fn called before the probe
IfNewValueEager(st, value, hash, p0) ==
    LET i == Probe(st.map, st.buffer, hash, value)
    IN  IF i # 0
        THEN Observe([st EXCEPT !.made = Append(@, Some(value))], st.map[i].payload)
        ELSE Observe(InsertNew(st, hash, value, p0), p0)

\* a valid element
IfNewValue(st, value, hash, p0) ==
    LET i == Probe(st.map, st.buffer, hash, value)
    IN  IF i # 0
        THEN Observe(st, st.map[i].payload)
        ELSE Observe(InsertNew(st, hash, value, p0), p0)

RECURSIVE insert_if_new_inner(_, _, _)
insert_if_new_inner(st, values, p0) ==
    IF values = <<>> THEN st
    ELSE LET value == Head(values)
             next  == IF value = None
                      THEN IfNewNull(st, p0)
                      ELSE IfNewValue(st, value[1], create_hash(st.random_state, value[1]), p0)
         IN  insert_if_new_inner(next, Tail(values), p0)

(***************************************************************************)
(* insert_or_update, with the callbacks of the counting tests:             *)
(* make_payload_fn = |_| 1 and update_payload_fn = |count| *count += 1     *)
(***************************************************************************)
MakeCount == 1
UpdateCount(payload) == payload + 1

\* a NULL element, the payload of a null already present left alone
UpdNullKept(st) ==
    IF st.null # None THEN st ELSE InsertNull(st, MakeCount)

\* a NULL element
UpdNull(st) ==
    IF st.null # None
    THEN [st EXCEPT !.null[1].payload = UpdateCount(@),
                    !.nullCalls       = Append(@, "update")]
    ELSE InsertNull(st, MakeCount)

\* a valid element, a new key's payload made and then updated as well
UpdValueBoth(st, value, hash) ==
    LET i == Probe(st.map, st.buffer, hash, value)
    IN  IF i # 0
        THEN [st EXCEPT !.map[i].payload = UpdateCount(@)]
        ELSE InsertNew(st, hash, value, UpdateCount(MakeCount))

\* a valid element, a key already present stored again and its entry pointed
\* at the new copy
UpdValueReappend(st, value, hash) ==
    LET i == Probe(st.map, st.buffer, hash, value)
    IN  IF i # 0
        THEN [st EXCEPT !.map[i] = NewEntry(st, hash, value, UpdateCount(st.map[i].payload)),
                        !.buffer = @ \o value]
        ELSE InsertNew(st, hash, value, MakeCount)

\* a valid element, a new "small" key kept in its entry only: no bytes in the
\* arena, a boundary of zero length
UpdValueInlineOnly(st, value, hash) ==
    LET i == Probe(st.map, st.buffer, hash, value)
    IN  IF i # 0
        THEN [st EXCEPT !.map[i].payload = UpdateCount(@)]
        ELSE IF Len(value) <= SHORT_VALUE_LEN
        THEN [st EXCEPT !.offsets = Append(@, usize_as(Len(st.buffer))),
                        !.made    = Append(@, Some(value)),
                        !.map     = Append(@, NewEntry(st, hash, value, MakeCount))]
        ELSE InsertNew(st, hash, value, MakeCount)

\* a valid element
UpdValue(st, value, hash) ==
    LET i == Probe(st.map, st.buffer, hash, value)
    IN  IF i # 0
        THEN [st EXCEPT !.map[i].payload = UpdateCount(@)]
        ELSE InsertNew(st, hash, value, MakeCount)

RECURSIVE insert_or_update_inner(_, _)
insert_or_update_inner(st, values) ==
    IF values = <<>> THEN st
    ELSE LET value == Head(values)
             next  == IF value = None
                      THEN UpdNull(st)
                      ELSE UpdValue(st, value[1], create_hash(st.random_state, value[1]))
         IN  insert_or_update_inner(next, Tail(values))

(***************************************************************************)
(* get_payloads                                                            *)
(***************************************************************************)
\* the null never looked up
GetNullAbsent(nul) == None

GetNull(nul) == IF nul # None THEN Some(nul[1].payload) ELSE None

GetValue(table, buf, hash, value) ==
    LET i == Probe(table, buf, hash, value)
    IN  IF i # 0 THEN Some(table[i].payload) ELSE None

\* one element of get_payloads_inner's loop
GetPayload(table, buf, nul, seed, value) ==
    IF value = None THEN GetNull(nul)
    ELSE GetValue(table, buf, create_hash(seed, value[1]), value[1])

get_payloads_inner(table, buf, nul, seed, values) ==
    [i \in 1..Len(values) |-> GetPayload(table, buf, nul, seed, values[i])]

(***************************************************************************)
(* into_state                                                              *)
(***************************************************************************)
\* a validity bitmap with null_index set and every other position unset
single_null_buffer_set(num_values, idx) == [i \in 1..num_values |-> i = idx + 1]

\* a validity bitmap with every position set but null_index
single_null_buffer(num_values, idx) == [i \in 1..num_values |-> i # idx + 1]

IntoStateArray(offs, buf, nul) ==
    [offsets |-> offs,
     values  |-> buf,
     nulls   |-> IF nul = None THEN None
                 ELSE Some(single_null_buffer(Len(offs) - 1, nul[1].null_index))]

\* the rows of a byte array: row i is NULL when its validity bit is unset,
\* else the bytes between offsets i and i+1
Rows(arr) ==
    [i \in 1..(Len(arr.offsets) - 1) |->
        IF arr.nulls # None /\ ~arr.nulls[1][i] THEN None
        ELSE Some(SubSeq(arr.values, arr.offsets[i] + 1, arr.offsets[i + 1]))]

\* len(): non_null_len() plus one for the null, if present
len(table, nul) == Len(table) + (IF nul # None THEN 1 ELSE 0)

\* is_empty(): self.map.is_empty() && self.null.is_none()
is_empty(table, nul) == table = <<>> /\ nul = None

(***************************************************************************)
(* Reference: what a test harness keeps beside the map (TestMap.strings,   *)
(* TestMap.indexes, the expected counts), computed from the batches alone  *)
(***************************************************************************)
RefIfNewElem(r, e, p0) ==
    IF r.ref[e] = None
    THEN [r EXCEPT !.seen = Append(@, e), !.ref[e] = Some(p0), !.exp = Append(@, p0)]
    ELSE [r EXCEPT !.exp = Append(@, r.ref[e][1])]

RECURSIVE RefIfNew(_, _, _)
RefIfNew(r, values, p0) ==
    IF values = <<>> THEN r
    ELSE RefIfNew(RefIfNewElem(r, Head(values), p0), Tail(values), p0)

RefUpdElem(r, e) ==
    IF r.ref[e] = None
    THEN [r EXCEPT !.seen = Append(@, e), !.ref[e] = Some(MakeCount), !.occ[e] = @ + 1]
    ELSE [r EXCEPT !.ref[e] = Some(UpdateCount(r.ref[e][1])), !.occ[e] = @ + 1]

RECURSIVE RefUpd(_, _)
RefUpd(r, values) ==
    IF values = <<>> THEN r ELSE RefUpd(RefUpdElem(r, Head(values)), Tail(values))

RefNow == [seen |-> seen, ref |-> ref, occ |-> occ, exp |-> <<>>]

CountNulls(values) == Cardinality({i \in 1..Len(values) : values[i] = None})

(***************************************************************************)
(* size(): map_size and the capacities of the arena, of offsets and of      *)
(* hashes_buffer, as insert_accounted, BufferBuilder and Vec grow them      *)
(***************************************************************************)
INITIAL_MAP_CAPACITY == 128
INITIAL_BUFFER_CAPACITY == 8 * 1024

\* the capacity of a table made so small that the keys of a run fill it
SMALL_MAP_CAPACITY == 1

\* mem::size_of of Entry<i32, u8>, of the offset type i32 and of a u64 hash
ENTRY_SIZE == 24
OFFSET_SIZE == 4
HASH_SIZE == 8

Max(a, b) == IF a >= b THEN a ELSE b

\* Vec::push on a Vec of the given capacity, until it holds need elements:
\* a full Vec doubles, to 4 elements at least
RECURSIVE Pushed(_, _)
Pushed(capacity, need) ==
    IF need <= capacity THEN capacity ELSE Pushed(Max(2 * capacity, 4), need)

\* hashes_buffer rebuilt for every batch with just the room the batch needs
ResizedExact(capacity, need) == need

\* Vec::clear and Vec::resize(need, 0): the capacity is kept when it suffices
Resized(capacity, need) ==
    IF need <= capacity THEN capacity ELSE Max(Max(2 * capacity, need), 4)

\* BufferBuilder::append_slice up to need bytes: the capacity is kept when it
\* suffices, else doubled or rounded up to a multiple of 64
Appended(capacity, need) ==
    IF need <= capacity THEN capacity
    ELSE Max(2 * capacity, ((need + 63) \div 64) * 64)

\* insert_accounted of n entries into a table that holds filled: when the table
\* is full, map_size grows by max(capacity, 16) entries and so does the table
RECURSIVE InsertAccounted(_, _, _)
InsertAccounted(a, filled, n) ==
    IF n = 0 THEN a
    ELSE IF filled < a.map_capacity THEN InsertAccounted(a, filled + 1, n - 1)
    ELSE LET bump_elements == Max(a.map_capacity, 16)
         IN  InsertAccounted([a EXCEPT !.map_size     = @ + bump_elements * ENTRY_SIZE,
                                       !.map_capacity = @ + bump_elements],
                             filled + 1, n - 1)

\* the sizes of a map just built, its table made for the given capacity
NewAlloc(map_capacity) ==
    [initial_map_capacity |-> map_capacity,
     map_capacity         |-> map_capacity,
     map_size             |-> 0,
     buffer_capacity      |-> INITIAL_BUFFER_CAPACITY,
     offsets_capacity     |-> 1,
     hashes_capacity      |-> 0]

\* the sizes after an insert call that took the table from filled entries to
\* those of st, for a batch of n elements
Accounted(sizes, filled, st, n) ==
    IF sizes = None THEN None
    ELSE LET a == InsertAccounted(sizes[1], filled, Len(st.map) - filled)
         IN  Some([a EXCEPT !.buffer_capacity  = Appended(@, Len(st.buffer)),
                            !.offsets_capacity = Pushed(@, Len(st.offsets)),
                            !.hashes_capacity  = Resized(@, n)])

\* size(): map_size + buffer.capacity() + offsets.allocated_size()
\*         + hashes_buffer.allocated_size()
size(a) ==
    a.map_size + a.buffer_capacity + a.offsets_capacity * OFFSET_SIZE
    + a.hashes_capacity * HASH_SIZE

(***************************************************************************)
(* The caller and the maps take() returns                                  *)
(***************************************************************************)
Dropping == [keeps |-> FALSE, snapshot |-> None]
Keeping == [keeps |-> TRUE, snapshot |-> None]

\* the caller's hold after a take that returned the map m, with what the
\* reference knew of the receiver
Kept(h, m, s, r) ==
    IF h.keeps THEN [h EXCEPT !.snapshot = Some([map |-> m, seen |-> s, ref |-> r])]
    ELSE h

(***************************************************************************)
(* The fold of a "small" value, on its own                                 *)
(***************************************************************************)
PackIdle == [a |-> <<>>, b |-> <<>>, word_a |-> ZeroWord, word_b |-> ZeroWord, done |-> FALSE]

\* the bytes the keys of the fold are made of, and the "small" keys
PackBytes == {0, 255}

RECURSIVE BytesUpTo(_)
BytesUpTo(n) ==
    IF n = 0 THEN {<<>>}
    ELSE LET shorter == BytesUpTo(n - 1)
         IN  shorter \cup {Append(s, x) : s \in {t \in shorter : Len(t) = n - 1}, x \in PackBytes}

PackKeys == BytesUpTo(SHORT_VALUE_LEN)

(***************************************************************************)
(* SkewnessAccumulator (src/src/skewness.rs)                               *)
(***************************************************************************)
\* SkewnessAccumulator::new
SkewnessAccumulator == [count |-> 0, sum |-> 0, sum_sqr |-> 0, sum_cub |-> 0]

\* the elements of a Float64 array: NULL or a value, whole numbers here so
\* that every sum is exact
Floats == {None, Some(1), Some(2)}

RECURSIVE FloatsUpTo(_)
FloatsUpTo(n) ==
    IF n = 0 THEN {<<>>}
    ELSE LET shorter == FloatsUpTo(n - 1)
         IN  shorter \cup {Append(a, x) : a \in {b \in shorter : Len(b) = n - 1}, x \in Floats}

\* one step of update_batch's loop with a NULL counted like a value
update_value_counts_null(a, val) ==
    IF val = None THEN [a EXCEPT !.count = @ + 1]
    ELSE [count   |-> a.count + 1,
          sum     |-> a.sum + val[1],
          sum_sqr |-> a.sum_sqr + val[1] * val[1],
          sum_cub |-> a.sum_cub + val[1] * val[1] * val[1]]

\* one step of the loop of update_batch: array.iter().flatten() passes over
\* a NULL
update_value(a, val) ==
    IF val = None THEN a
    ELSE [count   |-> a.count + 1,
          sum     |-> a.sum + val[1],
          sum_sqr |-> a.sum_sqr + val[1] * val[1],
          sum_cub |-> a.sum_cub + val[1] * val[1] * val[1]]

RECURSIVE update_batch(_, _)
update_batch(a, values) ==
    IF values = <<>> THEN a
    ELSE update_batch(update_value(a, Head(values)), Tail(values))

\* state(): the four fields as a Vec of four scalars
state(a) == <<a.count, a.sum, a.sum_sqr, a.sum_cub>>

\* the four arrays merge_batch is given for a sequence of states
Columns(rows) == [c \in 1..4 |-> [i \in 1..Len(rows) |-> rows[i][c]]]

\* one step of merge_batch's loop without the test of the count
merge_row_unskipped(a, c, s1, s2, s3) ==
    [count |-> a.count + c, sum |-> a.sum + s1, sum_sqr |-> a.sum_sqr + s2,
     sum_cub |-> a.sum_cub + s3]

\* one step of the loop of merge_batch: a state of count 0 is passed over
merge_row(a, c, s1, s2, s3) ==
    IF c = 0 THEN a
    ELSE [count |-> a.count + c, sum |-> a.sum + s1, sum_sqr |-> a.sum_sqr + s2,
          sum_cub |-> a.sum_cub + s3]

RECURSIVE merge_from(_, _, _)
merge_from(a, states, i) ==
    IF i > Len(states[1]) THEN a
    ELSE merge_from(merge_row(a, states[1][i], states[2][i], states[3][i], states[4][i]),
                    states, i + 1)

\* merge_batch: for i in 0..counts.len()
merge_batch(a, states) == merge_from(a, states, 1)

\* evaluate: the results it can return. Float64(None) when count <= 2 or
\* div == 0; whether div is 0 for values without spread is left to the
\* rounding of t1 = 1 / count
evaluate(a) ==
    IF a.count <= 2 THEN {None}
    ELSE IF a.count * a.sum_sqr - a.sum * a.sum = 0 THEN {None, Some("Float64")}
    ELSE {Some("Float64")}

\* the sum of the counts of a sequence of states
RECURSIVE SumCounts(_)
SumCounts(rows) == IF rows = <<>> THEN 0 ELSE Head(rows)[1] + SumCounts(Tail(rows))

\* states of count 0 whose sums are not 0
ZeroStates == {<<0, 1, 1, 1>>}

\* what is known of evaluate's result: nothing since the accumulator changed,
\* or the ScalarValue returned
NotEvaluated == [called |-> FALSE, value |-> None]
Evaluated(res) == [called |-> TRUE, value |-> res]

\* the accumulator that merges (acc), a partial accumulator, the states
\* emitted and not yet merged, and beside them one accumulator given every
\* value (whole) and the counts of what acc was given
SkewIdle ==
    [acc |-> SkewnessAccumulator, partial |-> SkewnessAccumulator, states |-> <<>>,
     whole |-> SkewnessAccumulator, given |-> 0, emitted |-> 0, nonNull |-> 0,
     nulls |-> 0, merged |-> 0, mergedStates |-> 0, result |-> NotEvaluated]

(***************************************************************************)
(* State machine                                                           *)
(***************************************************************************)
\* ArrowBytesMap::<O, V>::new(output_type), with a fresh RandomState
InitMap(types, max) ==
    /\ output_type \in types
    /\ offset_max = max
    /\ map = <<>>
    /\ buffer = <<>>
    /\ offsets = <<0>>
    /\ random_state \in Seeds
    /\ null = None
    /\ status = "live"
    /\ fed = 0
    /\ lastOp = "new"
    /\ lastP0 = 0
    /\ made = <<>>
    /\ observed = <<>>
    /\ nullCalls = <<>>
    /\ payloads = <<>>
    /\ array = None
    /\ seen = <<>>
    /\ ref = [e \in Elems |-> None]
    /\ occ = [e \in Elems |-> 0]
    /\ expObserved = <<>>
    /\ expPayloads = <<>>
    /\ lastNulls = 0
    /\ lastType = "none"
    /\ taken = None

\* a map whose caller drops the maps take() returns and whose sizes are not
\* followed, beside an idle fold and idle accumulators
InitWith(types, max) ==
    /\ InitMap(types, max)
    /\ held = Dropping
    /\ alloc = None
    /\ pack = PackIdle
    /\ skew = SkewIdle

\* the map of the tests: ArrowBytesMap::<i32, _>::new(OutputType::Utf8)
Init == InitWith({"Utf8"}, I32_MAX)

\* the map as the loops see it, with empty per-call logs
Self ==
    [map |-> map, buffer |-> buffer, offsets |-> offsets, null |-> null,
     random_state |-> random_state, made |-> made, observed |-> <<>>, nullCalls |-> <<>>]

\* the "Sanity array type" assertion left out
KindUnchecked(out, data_type) == TRUE

\* the "Sanity array type" assertion of insert_if_new, insert_or_update and
\* get_payloads: matches!(values.data_type(), ..) under the map's output type
KindAsserted(out, data_type) ==
    IF out = "Binary" THEN data_type \in {"Binary", "LargeBinary"}
    ELSE data_type \in {"Utf8", "LargeUtf8"}

\* the assertion failed: the call panics before it touches the map
AssertFailed ==
    /\ status' = "assert_failed"
    /\ observed' = <<>>
    /\ nullCalls' = <<>>
    /\ expObserved' = <<>>
    /\ UNCHANGED <<map, buffer, offsets, null, made, seen, ref, occ, payloads, array,
                   expPayloads, alloc>>

\* the check after the loop left out
AfterLoopUnchecked(st) == "live"

\* after the loop: panic when the arena length does not fit the offset type
AfterLoop(st) == IF from_usize(Len(st.buffer)) = None THEN "panicked" ELSE "live"

insert_if_new(values, data_type, p0) ==
    /\ status = "live"
    /\ fed + Len(values) <= MaxElems
    /\ IF ~KindAsserted(output_type, data_type) THEN AssertFailed
       ELSE LET st == insert_if_new_inner(Self, values, p0)
                r  == RefIfNew(RefNow, values, p0)
            IN  /\ map' = st.map
                /\ buffer' = st.buffer
                /\ offsets' = st.offsets
                /\ null' = st.null
                /\ made' = st.made
                /\ observed' = st.observed
                /\ nullCalls' = st.nullCalls
                /\ status' = AfterLoop(st)
                /\ seen' = r.seen
                /\ ref' = r.ref
                /\ expObserved' = r.exp
                /\ alloc' = Accounted(alloc, Len(map), st, Len(values))
                /\ UNCHANGED <<payloads, array, occ, expPayloads>>
    /\ fed' = fed + Len(values)
    /\ lastOp' = "insert_if_new"
    /\ lastP0' = p0
    /\ lastNulls' = CountNulls(values)
    /\ lastType' = data_type
    /\ taken' = None
    /\ UNCHANGED <<output_type, offset_max, random_state, held, pack, skew>>

\* insert_or_update with its assertion after the loop
insert_or_update_late_assert(values, data_type) ==
    /\ status = "live"
    /\ fed + Len(values) <= MaxElems
    /\ LET st == insert_or_update_inner(Self, values)
           r  == RefUpd(RefNow, values)
       IN  /\ map' = st.map
           /\ buffer' = st.buffer
           /\ offsets' = st.offsets
           /\ null' = st.null
           /\ made' = st.made
           /\ observed' = st.observed
           /\ nullCalls' = st.nullCalls
           /\ status' = IF ~KindAsserted(output_type, data_type) THEN "assert_failed"
                        ELSE AfterLoop(st)
           /\ seen' = r.seen
           /\ ref' = r.ref
           /\ occ' = r.occ
           /\ expObserved' = <<>>
           /\ alloc' = Accounted(alloc, Len(map), st, Len(values))
           /\ UNCHANGED <<payloads, array, expPayloads>>
    /\ fed' = fed + Len(values)
    /\ lastOp' = "insert_or_update"
    /\ lastP0' = 0
    /\ lastNulls' = CountNulls(values)
    /\ lastType' = data_type
    /\ taken' = None
    /\ UNCHANGED <<output_type, offset_max, random_state, held, pack, skew>>

insert_or_update(values, data_type) ==
    /\ status = "live"
    /\ fed + Len(values) <= MaxElems
    /\ IF ~KindAsserted(output_type, data_type) THEN AssertFailed
       ELSE LET st == insert_or_update_inner(Self, values)
                r  == RefUpd(RefNow, values)
            IN  /\ map' = st.map
                /\ buffer' = st.buffer
                /\ offsets' = st.offsets
                /\ null' = st.null
                /\ made' = st.made
                /\ observed' = st.observed
                /\ nullCalls' = st.nullCalls
                /\ status' = AfterLoop(st)
                /\ seen' = r.seen
                /\ ref' = r.ref
                /\ occ' = r.occ
                /\ expObserved' = <<>>
                /\ alloc' = Accounted(alloc, Len(map), st, Len(values))
                /\ UNCHANGED <<payloads, array, expPayloads>>
    /\ fed' = fed + Len(values)
    /\ lastOp' = "insert_or_update"
    /\ lastP0' = 0
    /\ lastNulls' = CountNulls(values)
    /\ lastType' = data_type
    /\ taken' = None
    /\ UNCHANGED <<output_type, offset_max, random_state, held, pack, skew>>

\* a lookup that inserts the keys it does not find, with V::default()
get_or_insert_payloads(values, data_type) ==
    /\ status = "live"
    /\ fed + Len(values) <= MaxElems
    /\ fed' = fed + Len(values)
    /\ LET st == insert_if_new_inner(Self, values, 0)
       IN  /\ map' = st.map
           /\ buffer' = st.buffer
           /\ offsets' = st.offsets
           /\ null' = st.null
           /\ payloads' = [i \in 1..Len(st.observed) |-> Some(st.observed[i])]
    /\ expPayloads' = [i \in 1..Len(values) |-> ref[values[i]]]
    /\ status' = "moved"
    /\ lastOp' = "get_payloads"
    /\ lastP0' = 0
    /\ observed' = <<>>
    /\ nullCalls' = <<>>
    /\ expObserved' = <<>>
    /\ lastNulls' = CountNulls(values)
    /\ lastType' = data_type
    /\ taken' = None
    /\ UNCHANGED <<output_type, offset_max, random_state, made, array, seen, ref, occ,
                   held, alloc, pack, skew>>

\* get_payloads takes self by value: the map is moved into the call
get_payloads(values, data_type) ==
    /\ status = "live"
    /\ fed + Len(values) <= MaxElems
    /\ fed' = fed + Len(values)
    /\ IF ~KindAsserted(output_type, data_type) THEN AssertFailed
       ELSE /\ payloads' = get_payloads_inner(map, buffer, null, random_state, values)
            /\ expPayloads' = [i \in 1..Len(values) |-> ref[values[i]]]
            /\ status' = "moved"
            /\ observed' = <<>>
            /\ nullCalls' = <<>>
            /\ expObserved' = <<>>
            /\ UNCHANGED <<map, buffer, offsets, null, made, array, seen, ref, occ, alloc>>
    /\ lastOp' = "get_payloads"
    /\ lastP0' = 0
    /\ lastNulls' = CountNulls(values)
    /\ lastType' = data_type
    /\ taken' = None
    /\ UNCHANGED <<output_type, offset_max, random_state, held, pack, skew>>

\* into_state takes self by value and hands the arena and offsets to the array
into_state ==
    /\ status = "live"
    /\ array' = Some(IntoStateArray(offsets, buffer, null))
    /\ status' = "moved"
    /\ lastOp' = "into_state"
    /\ lastP0' = 0
    /\ observed' = <<>>
    /\ nullCalls' = <<>>
    /\ expObserved' = <<>>
    /\ lastNulls' = 0
    /\ taken' = None
    /\ UNCHANGED <<output_type, offset_max, map, buffer, offsets, random_state, null, fed,
                   made, payloads, seen, ref, occ, expPayloads, lastType, held, alloc,
                   pack, skew>>

\* the fields of the map, as one value
Fields ==
    [output_type |-> output_type, map |-> map, buffer |-> buffer, offsets |-> offsets,
     random_state |-> random_state, null |-> null]

\* Self::new(self.output_type) with the RandomState it draws
NewFields(out, seed) ==
    [output_type |-> out, map |-> <<>>, buffer |-> <<>>, offsets |-> <<0>>,
     random_state |-> seed, null |-> None]

\* the reference starts over with the fresh map the receiver becomes
ForgetHistory ==
    /\ made' = <<>>
    /\ seen' = <<>>
    /\ ref' = [e \in Elems |-> None]
    /\ occ' = [e \in Elems |-> 0]
    /\ observed' = <<>>
    /\ nullCalls' = <<>>
    /\ expObserved' = <<>>
    /\ lastNulls' = 0
    /\ lastP0' = 0

\* take without the swap: the fresh map is returned, the receiver kept
take_unswapped ==
    /\ status = "live"
    /\ fed < MaxElems
    /\ \E seed \in Seeds : taken' = Some(NewFields(output_type, seed))
    /\ held' = Kept(held, taken'[1], seen, ref)
    /\ lastOp' = "take"
    /\ observed' = <<>>
    /\ nullCalls' = <<>>
    /\ expObserved' = <<>>
    /\ lastNulls' = 0
    /\ lastP0' = 0
    /\ fed' = fed + 1
    /\ UNCHANGED <<output_type, offset_max, map, buffer, offsets, random_state, null, made,
                   seen, ref, occ, status, payloads, array, expPayloads, lastType, alloc,
                   pack, skew>>

\* take with every field swapped but random_state: the map returned hashes
\* with the fresh RandomState, the receiver with the old one
take_seed_unswapped ==
    /\ status = "live"
    /\ fed < MaxElems
    /\ \E seed \in Seeds :
          LET new_self == NewFields(output_type, seed)
          IN  /\ taken' = Some([Fields EXCEPT !.random_state = seed])
              /\ map' = new_self.map
              /\ buffer' = new_self.buffer
              /\ offsets' = new_self.offsets
              /\ null' = new_self.null
              /\ output_type' = new_self.output_type
    /\ held' = Kept(held, taken'[1], seen, ref)
    /\ alloc' = IF alloc = None THEN None ELSE Some(NewAlloc(alloc[1].initial_map_capacity))
    /\ ForgetHistory
    /\ fed' = fed + 1
    /\ lastOp' = "take"
    /\ UNCHANGED <<offset_max, random_state, status, payloads, array, expPayloads, lastType,
                   pack, skew>>

\* take: new_self = Self::new(self.output_type); mem::swap(self, &mut new_self);
\* new_self is returned
take ==
    /\ status = "live"
    /\ fed < MaxElems
    /\ \E seed \in Seeds :
          LET new_self == NewFields(output_type, seed)
          IN  /\ taken' = Some(Fields)
              /\ map' = new_self.map
              /\ buffer' = new_self.buffer
              /\ offsets' = new_self.offsets
              /\ random_state' = new_self.random_state
              /\ null' = new_self.null
              /\ output_type' = new_self.output_type
    /\ held' = Kept(held, taken'[1], seen, ref)
    /\ alloc' = IF alloc = None THEN None ELSE Some(NewAlloc(alloc[1].initial_map_capacity))
    /\ ForgetHistory
    /\ fed' = fed + 1
    /\ lastOp' = "take"
    /\ UNCHANGED <<offset_max, status, payloads, array, expPayloads, lastType, pack, skew>>

\* the data type of the arrays a well-typed caller passes
TypeOf(out) == out

Next ==
    \/ \E values \in Batches(fed), p0 \in MakeValues :
          insert_if_new(values, TypeOf(output_type), p0)
    \/ \E values \in Batches(fed) : insert_or_update(values, TypeOf(output_type))
    \/ \E values \in Batches(fed) : get_payloads(values, TypeOf(output_type))
    \/ into_state

Spec == Init /\ [][Next]_vars

\* the counting use: a map driven by insert_or_update alone
NextUpdate ==
    \/ \E values \in Batches(fed) : insert_or_update(values, TypeOf(output_type))
    \/ \E values \in Batches(fed) : get_payloads(values, TypeOf(output_type))

SpecUpdate == Init /\ [][NextUpdate]_vars

\* a map that is filled, emptied with take and filled again
NextTake ==
    \/ \E values \in Batches(fed), p0 \in MakeValues :
          insert_if_new(values, TypeOf(output_type), p0)
    \/ \E values \in Batches(fed) : insert_or_update(values, TypeOf(output_type))
    \/ \E values \in Batches(fed) : get_payloads(values, TypeOf(output_type))
    \/ into_state
    \/ take

SpecTake == Init /\ [][NextTake]_vars

\* a map of either output type with a narrow offset type, given arrays of
\* either data type
InitAbort == InitWith(OutputTypes, NARROW_MAX)

NextAbort ==
    \/ \E values \in Batches(fed), data_type \in DataTypes, p0 \in MakeValues :
          insert_if_new(values, data_type, p0)
    \/ \E values \in Batches(fed), data_type \in DataTypes : insert_or_update(values, data_type)
    \/ \E values \in Batches(fed), data_type \in DataTypes : get_payloads(values, data_type)
    \/ into_state

SpecAbort == InitAbort /\ [][NextAbort]_vars

\* a caller that mixes the two insert protocols, the lookup and into_state
\* on one map, two elements a call at most
NextMix ==
    \/ \E values \in SeqsUpTo(2), p0 \in MakeValues : insert_if_new(values, "Utf8", p0)
    \/ \E values \in SeqsUpTo(2) : insert_or_update(values, "Utf8")
    \/ \E values \in SeqsUpTo(2) : get_payloads(values, "Utf8")
    \/ into_state

SpecMix == Init /\ [][NextMix]_vars

\* a caller that keeps the map take() returned while it feeds the receiver,
\* one element a call
InitKeep ==
    /\ InitMap({"Utf8"}, I32_MAX)
    /\ held = Keeping
    /\ alloc = None
    /\ pack = PackIdle
    /\ skew = SkewIdle

NextKeep ==
    \/ \E values \in SeqsUpTo(1), p0 \in MakeValues : insert_if_new(values, "Utf8", p0)
    \/ \E values \in SeqsUpTo(1) : insert_or_update(values, "Utf8")
    \/ take

SpecKeep == InitKeep /\ [][NextKeep]_vars

\* a map of one seed whose sizes are followed, its table made with the
\* capacity of the code or with one the keys of a run outgrow
InitSize ==
    /\ InitMap({"Utf8"}, I32_MAX)
    /\ random_state = 1
    /\ held = Dropping
    /\ pack = PackIdle
    /\ skew = SkewIdle
    /\ \E capacity \in {INITIAL_MAP_CAPACITY, SMALL_MAP_CAPACITY} :
          alloc = Some(NewAlloc(capacity))

NextSize ==
    \/ \E values \in Batches(fed), p0 \in MakeValues : insert_if_new(values, "Utf8", p0)
    \/ \E values \in Batches(fed) : insert_or_update(values, "Utf8")
    \/ \E values \in Batches(fed) : get_payloads(values, "Utf8")

SpecSize == InitSize /\ [][NextSize]_vars

\* the SkewnessAccumulators on their own: the map stays as built
InitSkew ==
    /\ InitMap({"Utf8"}, I32_MAX)
    /\ random_state = 1
    /\ held = Dropping
    /\ alloc = None
    /\ pack = PackIdle
    /\ skew = SkewIdle

MapIdle ==
    UNCHANGED <<output_type, offset_max, map, buffer, offsets, random_state, null,
                status, fed, lastOp, lastP0, made, observed, nullCalls, payloads,
                array, seen, ref, occ, expObserved, expPayloads, lastNulls, lastType,
                held, alloc, pack, taken>>

NonNull(values) == Len(values) - CountNulls(values)

\* acc.update_batch(values)
UpdateBatch(values) ==
    /\ skew.given + Len(values) <= MaxVals
    /\ skew' = [skew EXCEPT !.acc     = update_batch(@, values),
                            !.whole   = update_batch(@, values),
                            !.given   = @ + Len(values),
                            !.nonNull = @ + NonNull(values),
                            !.nulls   = @ + CountNulls(values),
                            !.result  = NotEvaluated]
    /\ MapIdle

\* partial.update_batch(values)
UpdatePartial(values) ==
    /\ skew.given + Len(values) <= MaxVals
    /\ skew' = [skew EXCEPT !.partial = update_batch(@, values),
                            !.whole   = update_batch(@, values),
                            !.given   = @ + Len(values),
                            !.result  = NotEvaluated]
    /\ MapIdle

\* partial.state() is kept for the merge; the next partial accumulator is new
State ==
    /\ skew.emitted < MaxStates
    /\ skew' = [skew EXCEPT !.states  = Append(@, state(skew.partial)),
                            !.partial = SkewnessAccumulator,
                            !.emitted = @ + 1,
                            !.result  = NotEvaluated]
    /\ MapIdle

\* a state of count 0 joins the states kept for the merge
ZeroState(row) ==
    /\ skew.emitted < MaxStates
    /\ skew' = [skew EXCEPT !.states  = Append(@, row),
                            !.emitted = @ + 1,
                            !.result  = NotEvaluated]
    /\ MapIdle

\* acc.merge_batch(states) with the states kept
MergeBatch ==
    /\ skew.states # <<>>
    /\ skew' = [skew EXCEPT !.acc          = merge_batch(@, Columns(skew.states)),
                            !.states       = <<>>,
                            !.merged       = @ + SumCounts(skew.states),
                            !.mergedStates = @ + Len(skew.states),
                            !.result       = NotEvaluated]
    /\ MapIdle

\* acc.evaluate()
Evaluate ==
    /\ ~skew.result.called
    /\ \E res \in evaluate(skew.acc) : skew' = [skew EXCEPT !.result = Evaluated(res)]
    /\ MapIdle

NextSkew ==
    \/ \E values \in FloatsUpTo(MaxVals) : UpdateBatch(values)
    \/ \E values \in FloatsUpTo(MaxVals) : UpdatePartial(values)
    \/ State
    \/ \E row \in ZeroStates : ZeroState(row)
    \/ MergeBatch
    \/ Evaluate

SpecSkew == InitSkew /\ [][NextSkew]_vars

\* the fold of two "small" values on its own: the map stays as built
InitPack ==
    /\ InitMap({"Utf8"}, I32_MAX)
    /\ held = Dropping
    /\ alloc = None
    /\ skew = SkewIdle
    /\ \E a \in PackKeys, b \in PackKeys : pack = [PackIdle EXCEPT !.a = a, !.b = b]

\* if value.len() <= SHORT_VALUE_LEN { let inline = value.iter().fold(..) .. }
Pack ==
    /\ ~pack.done
    /\ Len(pack.a) <= SHORT_VALUE_LEN
    /\ Len(pack.b) <= SHORT_VALUE_LEN
    /\ pack' = [pack EXCEPT !.word_a = InlineOf(pack.a),
                            !.word_b = InlineOf(pack.b),
                            !.done = TRUE]
    /\ UNCHANGED <<output_type, offset_max, map, buffer, offsets, random_state, null,
                   status, fed, lastOp, lastP0, made, observed, nullCalls, payloads,
                   array, seen, ref, occ, expObserved, expPayloads, lastNulls, lastType,
                   held, alloc, skew, taken>>

NextPack == Pack

SpecPack == InitPack /\ [][NextPack]_vars

(***************************************************************************)
(* Properties                                                              *)
(***************************************************************************)
Range(seq) == {seq[i] : i \in 1..Len(seq)}
Count(seq, x) == Cardinality({i \in 1..Len(seq) : seq[i] = x})

\* the payload a lookup of element e finds in the map as it stands
Stored(e) == GetPayload(map, buffer, null, random_state, e)

\* the rows into_state would return for the map as it stands
RowsNow == Rows(IntoStateArray(offsets, buffer, null))

OnlyIfNew == \A e \in Elems : occ[e] = 0

\* C1 (dedup correctness): len() is the number of distinct non-null keys
\* inserted, plus one if a null was inserted; and the array returned by
\* into_state holds every distinct key inserted exactly once and nothing else.
C1_Dedup ==
    /\ len(map, null) = Cardinality(Range(seen) \ {None})
                        + (IF None \in Range(seen) THEN 1 ELSE 0)
    /\ lastOp = "into_state" =>
          LET rows == Rows(array[1])
          IN  /\ \A e \in Elems : Count(rows, e) = (IF e \in Range(seen) THEN 1 ELSE 0)
              /\ \A i \in 1..Len(rows) : rows[i] \in Elems

\* into_state after insert_if_new batches alone, with a null and a repeated key
C1_Witness ==
    /\ lastOp = "into_state"
    /\ OnlyIfNew
    /\ None \in Range(seen)
    /\ Len(seen) >= 3
    /\ fed > Len(seen)

\* C2 (order preservation): row i of the array returned by into_state is the
\* i-th distinct element, null included, in order of first occurrence over all
\* the batches of both protocols.
C2_Order == lastOp = "into_state" => Rows(array[1]) = seen

\* into_state after both protocols were used, a key recurred, and the null
\* came neither first nor last
C2_Witness ==
    /\ lastOp = "into_state"
    /\ \E e \in Elems : occ[e] > 0
    /\ \E e \in Elems : occ[e] = 0 /\ ref[e] # None
    /\ Len(seen) >= 3
    /\ seen[2] = None
    /\ fed > Len(seen)

\* C3 (insert_if_new never mutates a payload): across an insert_if_new call,
\* every element with a payload before the call has the same payload after it,
\* and every element first seen in the call has the payload its
\* make_payload_fn produced.
C3_IfNewKeepsPayloads ==
    [][lastOp' = "insert_if_new" =>
          \A e \in Elems :
             LET before == GetPayload(map, buffer, null, random_state, e)
                 after  == GetPayload(map', buffer', null', random_state', e)
             IN  /\ before # None => after = before
                 /\ before = None /\ after # None => after = Some(lastP0')]_vars

\* an insert_if_new call that hit an element counted twice by insert_or_update
\* and created a key
C3_Witness ==
    /\ lastOp = "insert_if_new"
    /\ \E e \in Elems : occ[e] = 2 /\ Stored(e) = Some(2)
    /\ observed = <<2, lastP0>>
    /\ Len(map) + Len(null) >= 2

C5_GetPayloads == lastOp = "get_payloads" => payloads = expPayloads

\* a lookup of the null, of a key present and of a key absent
C5_Witness ==
    /\ lastOp = "get_payloads"
    /\ lastNulls = 1
    /\ None \in Range(seen)
    /\ Len(payloads) = 3
    /\ None \in Range(payloads)
    /\ \E i \in 1..Len(payloads) : payloads[i] # None /\ payloads[i][1] >= 2

CallsFor(name) == Count(nullCalls, name)

C10_Boundary ==
    \A s \in Keys, l \in Keys :
       (/\ Len(s) = SHORT_VALUE_LEN
        /\ Len(l) = SHORT_VALUE_LEN + 1
        /\ Some(s) \in Range(seen)
        /\ Some(l) \in Range(seen)) =>
          LET i == Probe(map, buffer, create_hash(random_state, s), s)
              j == Probe(map, buffer, create_hash(random_state, l), l)
          IN  /\ i # 0 /\ j # 0 /\ i # j
              /\ map[i].len = SHORT_VALUE_LEN /\ map[j].len = SHORT_VALUE_LEN + 1
              /\ Stored(Some(s)) = ref[Some(s)]
              /\ Stored(Some(l)) = ref[Some(l)]
              /\ Count(RowsNow, Some(s)) = 1
              /\ Count(RowsNow, Some(l)) = 1

\* the 9-byte key stored at offset 0, then its 8-byte prefix, whose packed
\* word is that offset, under a seed that makes them collide, with payloads
\* that differ
C10_Witness ==
    /\ Len(seen) >= 2
    /\ seen[1] = Some(Z9)
    /\ seen[2] = Some(Z8)
    /\ random_state = 0
    /\ map[1].offset_or_inline = map[2].offset_or_inline
    /\ map[1].hash = map[2].hash
    /\ Stored(Some(Z9)) # Stored(Some(Z8))

\* C11 (take): a take call returns a map whose entries with their payloads,
\* arena, offsets and null marker are those the receiver held before the call,
\* and leaves the receiver as a freshly built map of the same output type:
\* len() = 0, is_empty(), offsets = [0], an empty arena, no null marker.
C11_Take ==
    [][lastOp' = "take" =>
          /\ taken' # None
          /\ taken'[1].map = map
          /\ taken'[1].buffer = buffer
          /\ taken'[1].offsets = offsets
          /\ taken'[1].null = null
          /\ taken'[1].output_type = output_type
          /\ len(map', null') = 0
          /\ is_empty(map', null')
          /\ offsets' = <<0>>
          /\ buffer' = <<>>
          /\ null' = None
          /\ output_type' = output_type
          /\ status' = "live"]_vars

\* a take of a map that held two keys, one of them in the arena, and the null
C11_Witness ==
    /\ lastOp = "take"
    /\ taken # None
    /\ Len(taken[1].map) >= 2
    /\ taken[1].null # None
    /\ Len(taken[1].buffer) > SHORT_VALUE_LEN
    /\ is_empty(map, null)

\* text or binary: the kind an output type or an array's data type declares
Kind(type) == IF type \in {"Utf8", "LargeUtf8"} THEN "text" ELSE "binary"

\* C12 (kind mismatch): an insert_if_new or insert_or_update call given a batch
\* whose kind differs from the kind of the map's output type fails fatally
\* before any element is processed: no callback is invoked and the entries,
\* the arena, the offsets and the null marker are as they were.
C12_KindMismatch ==
    [][(/\ lastOp' \in {"insert_if_new", "insert_or_update"}
        /\ Kind(lastType') # Kind(output_type)) =>
          /\ status' = "assert_failed"
          /\ map' = map /\ buffer' = buffer /\ offsets' = offsets /\ null' = null
          /\ made' = made
          /\ observed' = <<>>
          /\ nullCalls' = <<>>]_vars

\* a batch of the other kind with a NULL, given to a map that holds a key and
\* no null
C12_Witness ==
    /\ status = "assert_failed"
    /\ lastOp = "insert_or_update"
    /\ Kind(lastType) # Kind(output_type)
    /\ lastNulls >= 1
    /\ Len(map) >= 1
    /\ null = None

\* the number of bytes of an element: none for the null
Bytes(e) == IF e = None THEN 0 ELSE Len(e[1])

\* the arena length after the first n make_payload_fn calls
RECURSIVE ArenaAfter(_)
ArenaAfter(n) == IF n = 0 THEN 0 ELSE ArenaAfter(n - 1) + Bytes(made[n])

\* C13 (arena overflow is surfaced at the key that causes it): every offset
\* stored is the arena length at the time it was pushed, never a wrapped value,
\* and an insert that failed for overflow stopped at the key whose bytes made
\* the arena outgrow the offset type, with no element of the batch processed
\* after it.
C13_OverflowImmediate ==
    /\ \A i \in 1..Len(offsets) : offsets[i] = ArenaAfter(i - 1)
    /\ status = "panicked" =>
          /\ made # <<>>
          /\ ArenaAfter(Len(made) - 1) <= offset_max

\* C14 (offsets): in every state reached by new, insert_if_new,
\* insert_or_update and take, offsets starts with 0, never decreases, ends
\* with the arena length and has len() + 1 elements; offsets[i]..offsets[i+1]
\* bounds the bytes of the i-th distinct element, a zero-length span for the
\* null.
C14_Offsets ==
    /\ offsets[1] = 0
    /\ \A i \in 1..(Len(offsets) - 1) : offsets[i] <= offsets[i + 1]
    /\ offsets[Len(offsets)] = Len(buffer)
    /\ Len(offsets) = len(map, null) + 1
    /\ Len(offsets) = Len(seen) + 1
    /\ \A i \in 1..Len(seen) :
          SubSeq(buffer, offsets[i] + 1, offsets[i + 1])
             = (IF seen[i] = None THEN <<>> ELSE seen[i][1])

\* a one-byte key, the null and a key in the arena, in that order
C14_Witness ==
    /\ Len(seen) = 3
    /\ seen[2] = None
    /\ offsets = <<0, 1, 1, SHORT_VALUE_LEN + 2>>
    /\ status = "live"

\* the bytes an entry stands for: the low len bytes of the packed word of a
\* "small" value, else the arena bytes at its range
KeyOf(header, buf) ==
    IF header.len <= SHORT_VALUE_LEN
    THEN SubSeq(header.offset_or_inline, SHORT_VALUE_LEN - header.len + 1, SHORT_VALUE_LEN)
    ELSE get_unchecked(buf, range(header))

\* C15 (entry uniqueness): the table holds one entry for every distinct key
\* inserted and no other entry; two different keys have two entries even when
\* their hashes are equal.
C15_Unique ==
    /\ \A k \in Keys :
          Cardinality({i \in 1..Len(map) : KeyOf(map[i], buffer) = k})
             = (IF Some(k) \in Range(seen) THEN 1 ELSE 0)
    /\ \A i \in 1..Len(map) : KeyOf(map[i], buffer) \in Keys
    /\ \A i, j \in 1..Len(map) : i # j => KeyOf(map[i], buffer) # KeyOf(map[j], buffer)

\* the four keys under one hash, each inserted once
C15_Witness ==
    /\ Len(map) = 4
    /\ \A i \in 1..Len(map) : map[i].hash = map[1].hash
    /\ status = "live"

\* C16 (null marker): the map has a null marker exactly when a NULL was
\* inserted, by either protocol; its logical index is the number of distinct
\* elements first seen before the first NULL; the array into_state builds has
\* no null indicator when there is no marker, and else one with every position
\* valid but that index.
C16_NullMarker ==
    /\ null # None <=> None \in Range(seen)
    /\ null # None =>
          /\ null[1].null_index < Len(seen)
          /\ seen[null[1].null_index + 1] = None
    /\ LET nulls == IntoStateArray(offsets, buffer, null).nulls
       IN  IF null = None THEN nulls = None
           ELSE /\ nulls # None
                /\ Len(nulls[1]) = Len(seen)
                /\ \A i \in 1..Len(seen) : nulls[1][i] <=> i # null[1].null_index + 1
    /\ lastOp = "into_state" => array[1].nulls = IntoStateArray(offsets, buffer, null).nulls

\* into_state of a map whose null came second of three elements and was
\* inserted a second time
C16_Witness ==
    /\ lastOp = "into_state"
    /\ null # None
    /\ null[1].null_index = 1
    /\ Len(seen) = 3
    /\ occ[None] = 2

IsPrefix(s, t) == Len(s) <= Len(t) /\ SubSeq(t, 1, Len(s)) = s

\* C17 (append-only growth): across an insert_if_new or insert_or_update
\* call no entry is removed, len() does not decrease, the arena and the
\* offsets before the call are prefixes of those after it, and the hash, the
\* length and the location of every entry present before the call are as they
\* were.
C17_AppendOnly ==
    [][lastOp' \in {"insert_if_new", "insert_or_update"} =>
          /\ Len(map') >= Len(map)
          /\ len(map', null') >= len(map, null)
          /\ IsPrefix(buffer, buffer')
          /\ IsPrefix(offsets, offsets')
          /\ \A i \in 1..Len(map) :
                /\ map'[i].hash = map[i].hash
                /\ map'[i].len = map[i].len
                /\ map'[i].offset_or_inline = map[i].offset_or_inline
          /\ null # None => null' # None /\ null'[1].null_index = null[1].null_index]_vars

\* an insert_or_update call that counted a key in the arena, made before by
\* insert_if_new, and created a key after it
C17_Witness ==
    /\ lastOp = "insert_or_update"
    /\ Len(map) = 2
    /\ map[1].len > SHORT_VALUE_LEN
    /\ map[1].payload = 6
    /\ map[2].payload = 1
    /\ fed = 3

\* C18 (re-insertion): an insert_if_new call whose batch holds only elements
\* already present leaves the entries with their payloads, the arena, the
\* offsets and the null marker as they were and calls make_payload_fn not at
\* all, so that the array into_state would build is the same.
C18_Reinsert ==
    [][(lastOp' = "insert_if_new" /\ seen' = seen) =>
          /\ map' = map /\ buffer' = buffer /\ offsets' = offsets /\ null' = null
          /\ made' = made
          /\ IntoStateArray(offsets', buffer', null') = IntoStateArray(offsets, buffer, null)]_vars

\* an insert_if_new batch of a key and a NULL, both counted before
C18_Witness ==
    /\ lastOp = "insert_if_new"
    /\ lastNulls = 1
    /\ observed = <<1, 1>>
    /\ Len(seen) = 2
    /\ Len(made) = 2

\* C19 as stated (lifecycle): only into_state ends the life of a map, so that
\* lookups and insertions can follow each other in any order until then, and
\* the receiver of a take can be used at once.
C19_Lifecycle ==
    /\ status = "moved" => lastOp = "into_state"
    /\ lastOp = "take" => status = "live"

\* the sum of the payloads the map stores
RECURSIVE SumPayloads(_)
SumPayloads(table) ==
    IF table = <<>> THEN 0 ELSE Head(table).payload + SumPayloads(Tail(table))

Total(table, nul) == SumPayloads(table) + (IF nul = None THEN 0 ELSE nul[1].payload)

RECURSIVE Valid(_)
Valid(seq) ==
    IF seq = <<>> THEN <<>>
    ELSE IF Head(seq) = None THEN Valid(Tail(seq))
    ELSE <<Head(seq)[1]>> \o Valid(Tail(seq))

\* C21 (probe equality): for every entry of the table and every key, the
\* closure the operations give to the table is true exactly when the key is
\* the byte sequence the entry was inserted for, whatever the two hashes are.
C21_EqExact ==
    /\ Len(map) = Len(Valid(seen))
    /\ \A i \in 1..Len(map), k \in Keys :
          Eq(map[i], k, buffer) <=> k = Valid(seen)[i]

\* the key of eight zero bytes and the two keys of nine bytes that differ in
\* the last byte only, the first of them stored at offset 0
C21_Witness ==
    /\ Valid(seen) = <<Z9, Z8, Y9>>
    /\ status = "live"

\* C22 (entry encoding): every entry of a key of at most SHORT_VALUE_LEN bytes
\* holds the key packed in a word, first byte most significant; every entry
\* of a longer key holds an offset with offset + len within the arena and
\* the key's bytes at that range.
C22_Encoding ==
    /\ Len(map) = Len(Valid(seen))
    /\ \A i \in 1..Len(map) :
          LET key == Valid(seen)[i]
              r   == range(map[i])
          IN  /\ map[i].len = Len(key)
              /\ map[i].len <= SHORT_VALUE_LEN =>
                    FromWord(map[i].offset_or_inline) = FromWord(InlineOf(key))
                    /\ map[i].offset_or_inline = InlineOf(key)
              /\ map[i].len > SHORT_VALUE_LEN =>
                    /\ r.end <= Len(buffer)
                    /\ SubSeq(buffer, r.start + 1, r.end) = key

\* a key in the arena stored after a packed key and another arena key
C22_Witness ==
    /\ Len(map) = 3
    /\ map[1].len > SHORT_VALUE_LEN
    /\ map[2].len <= SHORT_VALUE_LEN
    /\ map[3].len > SHORT_VALUE_LEN
    /\ FromWord(map[3].offset_or_inline) > SHORT_VALUE_LEN + 1

\* C23: the fold acc << 8 | byte over at most SHORT_VALUE_LEN bytes keeps
\* every byte (the word's low bytes are the key, the rest is zero, also for a
\* key of SHORT_VALUE_LEN bytes); two keys of one length have equal words
\* exactly when they have equal bytes; and the "small" closure, which compares
\* the lengths before the words, accepts exactly the equal key.
C23_Lossless ==
    pack.done =>
        /\ SubSeq(pack.word_a, SHORT_VALUE_LEN - Len(pack.a) + 1, SHORT_VALUE_LEN) = pack.a
        /\ \A i \in 1..(SHORT_VALUE_LEN - Len(pack.a)) : pack.word_a[i] = 0
        /\ Len(pack.a) = Len(pack.b) => (pack.word_a = pack.word_b <=> pack.a = pack.b)
        /\ EqShort(Entry(0, Len(pack.a), pack.word_a, 0), Len(pack.b), pack.word_b)
              <=> pack.a = pack.b

\* two keys of different lengths, one of them of SHORT_VALUE_LEN bytes, were
\* packed into the same word
C23_Witness ==
    /\ pack.done
    /\ Len(pack.a) = SHORT_VALUE_LEN
    /\ pack.a[2] = 255
    /\ Len(pack.b) = SHORT_VALUE_LEN - 1
    /\ pack.word_a = pack.word_b

\* what the two protocols are said to share: the entries without their
\* payloads, the arena, the offsets and the index of the null
Shape(st) ==
    [keys       |-> [i \in 1..Len(st.map) |->
                        [hash |-> st.map[i].hash, len |-> st.map[i].len,
                         offset_or_inline |-> st.map[i].offset_or_inline]],
     buffer     |-> st.buffer,
     offsets    |-> st.offsets,
     null_index |-> IF st.null = None THEN None ELSE Some(st.null[1].null_index)]

\* the shape a map of the given seed has after the distinct elements s, in the
\* order of their first occurrence: a function of the elements alone
RECURSIVE ShapeOf(_, _)
ShapeOf(s, seed) ==
    IF s = <<>>
    THEN [keys |-> <<>>, buffer |-> <<>>, offsets |-> <<0>>, null_index |-> None]
    ELSE LET before == ShapeOf(SubSeq(s, 1, Len(s) - 1), seed)
             e      == s[Len(s)]
         IN  IF e = None
             THEN [before EXCEPT !.offsets    = Append(@, Len(before.buffer)),
                                 !.null_index = Some(Len(s) - 1)]
             ELSE [before EXCEPT
                     !.keys    = Append(@, [hash |-> create_hash(seed, e[1]),
                                            len  |-> Len(e[1]),
                                            offset_or_inline |->
                                                IF Len(e[1]) <= SHORT_VALUE_LEN
                                                THEN InlineOf(e[1])
                                                ELSE ToWord(Len(before.buffer))]),
                     !.buffer  = @ \o e[1],
                     !.offsets = Append(@, Len(before.buffer) + Len(e[1]))]

\* C24 (protocol equivalence): whatever mix of insert_if_new and
\* insert_or_update calls a map was fed by, its entries (payloads apart), its
\* arena, its offsets and its null index are those the distinct elements fed
\* determine in the order of their first occurrence, and so is the array
\* into_state returns; and from every state the two protocols take one more
\* batch to the same entries, arena, offsets and null index.
C24_Protocols ==
    status = "live" =>
        /\ Shape(Self) = ShapeOf(seen, random_state)
        /\ RowsNow = seen
        /\ \A e \in Elems, p0 \in MakeValues :
              Shape(insert_if_new_inner(Self, <<e>>, p0))
                  = Shape(insert_or_update_inner(Self, <<e>>))

\* a map fed by both protocols: four distinct elements, one entry with the
\* payload insert_if_new made and one with a count insert_or_update made
C24_Witness ==
    /\ status = "live"
    /\ seen = <<Some(Z9), None, Some(A1), Some(Y9)>>
    /\ OnlyIfNew = FALSE
    /\ \E i \in 1..Len(map) : map[i].payload = 5
    /\ \E i \in 1..Len(map) : map[i].payload = 1

\* the map the same operations build under the other seed: the same entries
\* with the hashes the other RandomState gives their keys
OtherSeed(seed) == CHOOSE other \in Seeds : other # seed

Twin(st) ==
    [st EXCEPT !.random_state = OtherSeed(@),
               !.map = [i \in 1..Len(st.map) |->
                           [st.map[i] EXCEPT
                               !.hash = create_hash(OtherSeed(st.random_state),
                                                    KeyOf(st.map[i], st.buffer))]]]

\* C25 (hash independence): the map and the map the same operations build
\* under the other seed answer one more batch alike: the same callback
\* invocations with the same arguments in the same order for insert_if_new and
\* for insert_or_update, the same Option for every element looked up, the same
\* len() and the same array, and they are again each other's counterpart; and
\* what the calls so far reported is what the seed-free reference expects.
C25_Seeds ==
    /\ observed = expObserved
    /\ lastOp = "get_payloads" => payloads = expPayloads
    /\ lastOp = "into_state" => Rows(array[1]) = seen
    /\ status = "live" =>
        LET other == Twin(Self)
        IN  /\ len(map, null) = len(other.map, other.null)
            /\ IntoStateArray(offsets, buffer, null)
                 = IntoStateArray(other.offsets, other.buffer, other.null)
            /\ \A e \in Elems :
                  /\ GetPayload(map, buffer, null, random_state, e)
                        = GetPayload(other.map, other.buffer, other.null,
                                     other.random_state, e)
                  /\ \A p0 \in MakeValues :
                        Twin(insert_if_new_inner(Self, <<e>>, p0))
                            = insert_if_new_inner(other, <<e>>, p0)
                  /\ Twin(insert_or_update_inner(Self, <<e>>))
                        = insert_or_update_inner(other, <<e>>)

\* a lookup under the seed that tells Z9 from Z8 by its hash, of a map that
\* holds both: one element found and one absent
C25_Witness ==
    /\ status = "moved"
    /\ random_state = 1
    /\ lastOp = "get_payloads"
    /\ seen = <<Some(Z9), Some(Z8)>>
    /\ map[1].hash # map[2].hash
    /\ Len(payloads) = 2
    /\ payloads[1] = None
    /\ payloads[2] # None

\* C26 (no aliasing after take): the map a take() returned, kept by the
\* caller while the receiver is fed again, still answers with its own seed for
\* every element as it did when it was taken (the payload of every key
\* inserted before the take, None for any other element), and still turns
\* into the array of the elements inserted before the take; what the receiver
\* was given since is nowhere in it.
C26_Snapshot ==
    held.snapshot # None =>
        LET m == held.snapshot[1].map
        IN  /\ \A e \in Elems :
                  GetPayload(m.map, m.buffer, m.null, m.random_state, e)
                      = held.snapshot[1].ref[e]
            /\ Rows(IntoStateArray(m.offsets, m.buffer, m.null)) = held.snapshot[1].seen
            /\ len(m.map, m.null) = Len(held.snapshot[1].seen)

\* a map of two keys was taken and kept, and the receiver, which hashes with
\* another seed, was then given one of the two keys again and a third key
C26_Witness ==
    /\ held.snapshot # None
    /\ held.snapshot[1].seen = <<Some(Z9), Some(Z8)>>
    /\ held.snapshot[1].map.random_state # random_state
    /\ seen = <<Some(Z8)>>
    /\ lastOp # "take"
    /\ Stored(Some(Z8)) # held.snapshot[1].ref[Some(Z8)]

\* C27 (offsets are exact): a map that an insert call returned from
\* normally, or that no call has changed since, has an arena whose length the
\* offset type can represent, and every element of its offsets is the exact
\* arena boundary after the distinct elements before it, never a wrapped
\* value; and so is every element of the offsets of an array into_state
\* returned.
C27_Exact ==
    /\ status \in {"live", "moved", "assert_failed"} =>
          /\ Len(buffer) <= offset_max
          /\ offsets = ShapeOf(seen, random_state).offsets
          /\ \A i \in 1..Len(offsets) : 0 <= offsets[i] /\ offsets[i] <= Len(buffer)
    /\ (status = "moved" /\ lastOp = "into_state") =>
          array[1].offsets = ShapeOf(seen, random_state).offsets

\* a map of the narrow offset type that holds a long key, a null and a short
\* key was turned into an array of exact offsets
C27_Witness ==
    /\ offset_max = NARROW_MAX
    /\ status = "moved"
    /\ lastOp = "into_state"
    /\ seen = <<Some(Z9), None, Some(A1)>>
    /\ array[1].offsets = <<0, SHORT_VALUE_LEN + 1, SHORT_VALUE_LEN + 1, SHORT_VALUE_LEN + 2>>

\* C28 (size accounting): size() adds map_size, the capacity of the arena and
\* the allocated sizes of offsets and of hashes_buffer, each of which covers
\* what the map holds (map_size is the bytes of the entries the table grew
\* by); map_size changes only across an insert call that added an entry to the
\* table, so that hits, null elements and lookups leave it as it was; and
\* size() after an insert_if_new or insert_or_update call is never below
\* size() before it.
C28_Size ==
    [][LET a == alloc[1]
           b == alloc'[1]
       IN  /\ size(b) = b.map_size + b.buffer_capacity + OFFSET_SIZE * b.offsets_capacity
                           + HASH_SIZE * b.hashes_capacity
           /\ b.map_size = ENTRY_SIZE * (b.map_capacity - b.initial_map_capacity)
           /\ Len(map') <= b.map_capacity
           /\ Len(buffer') <= b.buffer_capacity
           /\ Len(offsets') <= b.offsets_capacity
           /\ b.map_size # a.map_size =>
                 /\ lastOp' \in {"insert_if_new", "insert_or_update"}
                 /\ Len(map') > Len(map)
           /\ lastOp' \in {"insert_if_new", "insert_or_update"} =>
                 /\ size(b) >= size(a)
                 /\ fed' - fed <= b.hashes_capacity
           /\ lastOp' = "get_payloads" => b = a]_vars

\* a table made for one entry grew by sixteen entries, the offsets of three
\* keys and a null fill a Vec of eight, and the last call was an
\* insert_or_update of one element after a longer batch
C28_Witness ==
    /\ alloc # None
    /\ alloc[1].map_size = 16 * ENTRY_SIZE
    /\ alloc[1].offsets_capacity = 8
    /\ alloc[1].hashes_capacity = 4
    /\ Len(map) = 3
    /\ null # None
    /\ lastOp = "insert_or_update"
    /\ lastNulls = 0
    /\ fed = MaxElems

\* C29 (count of the SkewnessAccumulator): after any sequence of update_batch
\* and merge_batch calls, count is the number of non-null values update_batch
\* was given plus the sum of the counts of the states merged; a batch of NULLs
\* changes no field; and evaluate returns Float64(None) whenever count <= 2.
C29_Count ==
    /\ skew.acc.count = skew.nonNull + skew.merged
    /\ \A values \in FloatsUpTo(2) :
          NonNull(values) = 0 => /\ update_batch(skew.acc, values) = skew.acc
                                /\ update_batch(skew.partial, values) = skew.partial
    /\ (skew.result.called /\ skew.acc.count <= 2) => skew.result.value = None

\* an accumulator given one value and a NULL by update_batch and one value by
\* a merged state was evaluated at count 2
C29_Witness ==
    /\ skew.nonNull = 1
    /\ skew.nulls = 1
    /\ skew.merged = 1
    /\ skew.acc.count = 2
    /\ skew.result = Evaluated(None)

\* the accumulator that the states kept and the partial accumulator's own
\* state would be merged into
MergedAll ==
    merge_batch(merge_batch(skew.acc, Columns(skew.states)),
                Columns(<<state(skew.partial)>>))

\* C30 (merge of partial states): the states of the accumulators a sequence
\* was split across, merged by merge_batch, give the count, sum, sum_sqr and
\* sum_cub of one accumulator given the whole sequence: at any time for the
\* states still to merge, and in the merging accumulator itself once every
\* state is merged; and a state of count 0 changes no field of the
\* accumulator it is merged into.
C30_Merge ==
    /\ MergedAll = skew.whole
    /\ (skew.states = <<>> /\ skew.partial = SkewnessAccumulator) => skew.acc = skew.whole
    /\ \A row \in ZeroStates : merge_batch(skew.acc, Columns(<<row>>)) = skew.acc

\* three values were split across two accumulators, whose states were merged
\* with a state of count 0 into an accumulator that update_batch never fed
C30_Witness ==
    /\ skew.states = <<>>
    /\ skew.partial = SkewnessAccumulator
    /\ skew.mergedStates = 3
    /\ skew.nonNull = 0
    /\ skew.acc = [count |-> 3, sum |-> 5, sum_sqr |-> 9, sum_cub |-> 17]
    /\ skew.acc = skew.whole

====
